---- MODULE Spec2Model ----
(***************************************************************************)
(* Model of the payments engine: the transaction ledger (TransactionDb),   *)
(* the account book (ClientDb / AccountState) and process_operation, which *)
(* applies one input row to both.                                          *)
(*                                                                         *)
(* Decimal is modelled as the integers -MaxDecimal..MaxDecimal (a count of *)
(* the smallest unit); checked_add / checked_sub return None outside that  *)
(* range, as rust_decimal does outside Decimal::MIN..Decimal::MAX (the     *)
(* scale of a Decimal, and the rounding of the summary, are not modelled). *)
(***************************************************************************)
EXTENDS Integers, Sequences, FiniteSets, TLC

\* ------------------------------------------------------------- bounds
\* Largest Decimal magnitude of the model (stands for Decimal::MAX).
MaxDecimal == 2
\* Client ids 1..NumClients and transaction ids 1..NumTxs appear in rows.
NumClients == 2
NumTxs == 2
\* Longest input file, in rows.
MaxRows == 5
\* Longest input file, in rows, when its client ids come in any order.
MaxOrderRows == 3

ClientIds == 1..NumClients
TxIds == 1..NumTxs
Decimals == (0 - MaxDecimal)..MaxDecimal

\* Option<T>
None == <<>>
Some(x) == <<x>>

\* The amount column of a row: absent, or a Decimal: a negative one, zero, the
\* smallest positive one and the largest one.
RowAmounts == {None} \cup {Some(d) : d \in {0 - 1, 0, 1, MaxDecimal}}

OperationTypes == {"deposit", "withdrawal", "dispute", "resolve", "chargeback"}

\* struct Operation
Operation(t, c, x, a) == [op_type |-> t, client |-> c, tx |-> x, amount |-> a]

Ok == "ok"

\* ------------------------------------------------------------- Decimal
checked_add(a, b) == IF a + b \in Decimals THEN Some(a + b) ELSE None

checked_sub(a, b) == IF a - b \in Decimals THEN Some(a - b) ELSE None

\* ------------------------------------------------------------- TransactionDb
TxRecord(amount, status) == [amount |-> amount, status |-> status]

\* Variant: the amount check accepts zero.
TransactionDb_deposit_Zero(db, transaction_id, amount) ==
    IF ~(amount >= 0)
    THEN [err |-> "deposit amount must be > 0", db |-> db, amount |-> 0]
    ELSE IF transaction_id \in DOMAIN db
    THEN [err |-> "transaction already exists", db |-> db, amount |-> 0]
    ELSE [err |-> Ok,
          db |-> db @@ (transaction_id :> TxRecord(amount, "Deposited")),
          amount |-> amount]

TransactionDb_deposit(db, transaction_id, amount) ==
    IF ~(amount > 0)
    THEN [err |-> "deposit amount must be > 0", db |-> db, amount |-> 0]
    ELSE IF transaction_id \in DOMAIN db
    THEN [err |-> "transaction already exists", db |-> db, amount |-> 0]
    ELSE [err |-> Ok,
          db |-> db @@ (transaction_id :> TxRecord(amount, "Deposited")),
          amount |-> amount]

\* Variant: HashMap::insert in place of the vacant-entry check.
TransactionDb_withdraw_Overwrite(db, transaction_id, amount) ==
    [err |-> Ok,
     db |-> [x \in DOMAIN db \cup {transaction_id} |->
                IF x = transaction_id THEN TxRecord(amount, "Withdrawn") ELSE db[x]],
     amount |-> amount]

TransactionDb_withdraw(db, transaction_id, amount) ==
    IF transaction_id \in DOMAIN db
    THEN [err |-> "transaction already exists", db |-> db, amount |-> 0]
    ELSE [err |-> Ok,
          db |-> db @@ (transaction_id :> TxRecord(amount, "Withdrawn")),
          amount |-> amount]

\* Variant: the status check also matches Resolved (a resolved transaction can
\* be disputed again).
TransactionDb_dispute_Redispute(db, transaction_id) ==
    IF transaction_id \notin DOMAIN db
    THEN [err |-> "transaction does not exist", db |-> db, amount |-> 0]
    ELSE IF db[transaction_id].status \notin {"Deposited", "Resolved"}
    THEN [err |-> "transaction can't be disputed", db |-> db, amount |-> 0]
    ELSE [err |-> Ok,
          db |-> [db EXCEPT ![transaction_id].status = "Disputed"],
          amount |-> db[transaction_id].amount]

TransactionDb_dispute(db, transaction_id) ==
    IF transaction_id \notin DOMAIN db
    THEN [err |-> "transaction does not exist", db |-> db, amount |-> 0]
    ELSE IF db[transaction_id].status # "Deposited"
    THEN [err |-> "transaction can't be disputed", db |-> db, amount |-> 0]
    ELSE [err |-> Ok,
          db |-> [db EXCEPT ![transaction_id].status = "Disputed"],
          amount |-> db[transaction_id].amount]

TransactionDb_resolve(db, transaction_id) ==
    IF transaction_id \notin DOMAIN db
    THEN [err |-> "transaction does not exist", db |-> db, amount |-> 0]
    ELSE IF db[transaction_id].status # "Disputed"
    THEN [err |-> "transaction isn't under dispute", db |-> db, amount |-> 0]
    ELSE [err |-> Ok,
          db |-> [db EXCEPT ![transaction_id].status = "Resolved"],
          amount |-> db[transaction_id].amount]

\* Variant: the status check also matches Chargedback.
TransactionDb_chargeback_Again(db, transaction_id) ==
    IF transaction_id \notin DOMAIN db
    THEN [err |-> "transaction does not exist", db |-> db, amount |-> 0]
    ELSE IF db[transaction_id].status \notin {"Disputed", "Chargedback"}
    THEN [err |-> "transaction isn't under dispute", db |-> db, amount |-> 0]
    ELSE [err |-> Ok,
          db |-> [db EXCEPT ![transaction_id].status = "Chargedback"],
          amount |-> db[transaction_id].amount]

TransactionDb_chargeback(db, transaction_id) ==
    IF transaction_id \notin DOMAIN db
    THEN [err |-> "transaction does not exist", db |-> db, amount |-> 0]
    ELSE IF db[transaction_id].status # "Disputed"
    THEN [err |-> "transaction isn't under dispute", db |-> db, amount |-> 0]
    ELSE [err |-> Ok,
          db |-> [db EXCEPT ![transaction_id].status = "Chargedback"],
          amount |-> db[transaction_id].amount]

\* ------------------------------------------------------------- AccountState
\* #[derive(Default)] struct AccountState
AccountState_default == [available |-> 0, held |-> 0, total |-> 0, locked |-> FALSE]

AccountState_deposit(self, amount) ==
    LET new_available == checked_add(self.available, amount)
        new_total == checked_add(self.total, amount)
    IN  IF new_available = None
        THEN [err |-> "available amount overflow", self |-> self]
        ELSE IF new_total = None
        THEN [err |-> "total amount overflow", self |-> self]
        ELSE [err |-> Ok,
              self |-> [self EXCEPT !.available = new_available[1],
                                    !.total = new_total[1]]]

\* Variant: the check of the available funds is missing.
AccountState_authorize_withdrawal_NoFunds(self, amount) ==
    IF ~(amount > 0) THEN "withdrawal amount should be > 0" ELSE Ok

\* Variant: a locked account authorizes no withdrawal.
AccountState_authorize_withdrawal_Locked(self, amount) ==
    IF ~(amount > 0) THEN "withdrawal amount should be > 0"
    ELSE IF self.locked THEN "account is locked"
    ELSE IF ~(self.available >= amount) THEN "not enough funds"
    ELSE Ok

AccountState_authorize_withdrawal(self, amount) ==
    IF ~(amount > 0) THEN "withdrawal amount should be > 0"
    ELSE IF ~(self.available >= amount) THEN "not enough funds"
    ELSE Ok

AccountState_withdraw(self, amount) ==
    LET new_available == checked_sub(self.available, amount)
        new_total == checked_sub(self.total, amount)
    IN  IF new_available = None
        THEN [err |-> "available amount underflow", self |-> self]
        ELSE IF new_total = None
        THEN [err |-> "total amount underflow", self |-> self]
        ELSE [err |-> Ok,
              self |-> [self EXCEPT !.available = new_available[1],
                                    !.total = new_total[1]]]

\* Variant: a dispute takes the amount out of total, as a withdrawal does.
AccountState_dispute_deposit_Total(self, amount) ==
    LET new_available == checked_sub(self.available, amount)
        new_total == checked_sub(self.total, amount)
    IN  IF new_available = None
        THEN [err |-> "available amount underflow", self |-> self]
        ELSE IF new_total = None
        THEN [err |-> "total amount underflow", self |-> self]
        ELSE [err |-> Ok,
              self |-> [self EXCEPT !.available = new_available[1],
                                    !.total = new_total[1]]]

\* Variant: a dispute needs the funds to be available, as a withdrawal does.
AccountState_dispute_deposit_Funds(self, amount) ==
    IF ~(self.available >= amount)
    THEN [err |-> "not enough funds", self |-> self]
    ELSE LET new_available == checked_sub(self.available, amount)
             new_held == checked_add(self.held, amount)
         IN  IF new_available = None
             THEN [err |-> "available amount underflow", self |-> self]
             ELSE IF new_held = None
             THEN [err |-> "held amount overflow",
                   self |-> [self EXCEPT !.available = new_available[1]]]
             ELSE [err |-> Ok,
                   self |-> [self EXCEPT !.available = new_available[1],
                                         !.held = new_held[1]]]

\* self.available is assigned before the addition to held is checked.
AccountState_dispute_deposit(self, amount) ==
    LET new_available == checked_sub(self.available, amount)
    IN  IF new_available = None
        THEN [err |-> "available amount underflow", self |-> self]
        ELSE LET self1 == [self EXCEPT !.available = new_available[1]]
                 new_held == checked_add(self1.held, amount)
             IN  IF new_held = None
                 THEN [err |-> "held amount overflow", self |-> self1]
                 ELSE [err |-> Ok, self |-> [self1 EXCEPT !.held = new_held[1]]]

\* Variant: a resolve adds the amount to total, as a deposit does.
AccountState_resolve_dispute_Total(self, amount) ==
    LET new_held == checked_sub(self.held, amount)
        new_available == checked_add(self.available, amount)
        new_total == checked_add(self.total, amount)
    IN  IF new_held = None
        THEN [err |-> "held amount underflow", self |-> self]
        ELSE IF new_available = None
        THEN [err |-> "available amount overflow", self |-> self]
        ELSE IF new_total = None
        THEN [err |-> "total amount overflow", self |-> self]
        ELSE [err |-> Ok,
              self |-> [self EXCEPT !.held = new_held[1],
                                    !.available = new_available[1],
                                    !.total = new_total[1]]]

AccountState_resolve_dispute(self, amount) ==
    LET new_held == checked_sub(self.held, amount)
        new_available == checked_add(self.available, amount)
    IN  IF new_held = None
        THEN [err |-> "held amount underflow", self |-> self]
        ELSE IF new_available = None
        THEN [err |-> "available amount overflow", self |-> self]
        ELSE [err |-> Ok,
              self |-> [self EXCEPT !.held = new_held[1],
                                    !.available = new_available[1]]]

AccountState_chargeback(self, amount) ==
    LET new_held == checked_sub(self.held, amount)
        new_total == checked_sub(self.total, amount)
    IN  IF new_held = None
        THEN [err |-> "held amount underflow", self |-> self]
        ELSE IF new_total = None
        THEN [err |-> "total amount underflow", self |-> self]
        ELSE [err |-> Ok,
              self |-> [self EXCEPT !.held = new_held[1],
                                    !.total = new_total[1],
                                    !.locked = TRUE]]

\* ------------------------------------------------------------- ClientDb
\* IndexMap<ClientId, AccountState>: entries in insertion order.
ClientDb_has(db, client_id) == \E i \in 1..Len(db) : db[i].id = client_id

ClientDb_index(db, client_id) == CHOOSE i \in 1..Len(db) : db[i].id = client_id

\* Variant: insert(client_id, default) in place of entry(client_id).or_default().
ClientDb_get_mut_Insert(db, client_id) ==
    IF ClientDb_has(db, client_id)
    THEN [db EXCEPT ![ClientDb_index(db, client_id)].state = AccountState_default]
    ELSE Append(db, [id |-> client_id, state |-> AccountState_default])

\* Variant: a map ordered by key (BTreeMap) in place of the IndexMap.
ClientDb_get_mut_Sorted(db, client_id) ==
    IF ClientDb_has(db, client_id) THEN db
    ELSE LET below == SelectSeq(db, LAMBDA e : e.id < client_id)
             above == SelectSeq(db, LAMBDA e : e.id > client_id)
         IN  below \o <<[id |-> client_id, state |-> AccountState_default]>> \o above

\* entry(client_id).or_default(): the map after the call.
ClientDb_get_mut(db, client_id) ==
    IF ClientDb_has(db, client_id) THEN db
    ELSE Append(db, [id |-> client_id, state |-> AccountState_default])

\* The account behind the &mut AccountState that get_mut returned.
ClientDb_state(db, client_id) == db[ClientDb_index(db, client_id)].state

\* A write through the &mut AccountState that get_mut returned.
ClientDb_store(db, client_id, state) ==
    [db EXCEPT ![ClientDb_index(db, client_id)].state = state]

\* ------------------------------------------------------------- process_operation
Outcome(cdb, tdb, result) == [clients |-> cdb, transactions |-> tdb, result |-> result]

ProcessDepositRow(cdb, tdb, operation) ==
    IF operation.amount = None THEN Outcome(cdb, tdb, "no amount for deposit")
    ELSE LET amount == operation.amount[1]
             deposit == TransactionDb_deposit(tdb, operation.tx, amount)
         IN  IF deposit.err # Ok THEN Outcome(cdb, tdb, deposit.err)
             ELSE LET r == AccountState_deposit(
                               ClientDb_state(cdb, operation.client), deposit.amount)
                  IN  Outcome(ClientDb_store(cdb, operation.client, r.self),
                              deposit.db, r.err)

ProcessWithdrawalRow(cdb, tdb, operation) ==
    IF operation.amount = None THEN Outcome(cdb, tdb, "no amount for withdrawal")
    ELSE LET amount == operation.amount[1]
             client == ClientDb_state(cdb, operation.client)
             authorized == AccountState_authorize_withdrawal(client, amount)
         IN  IF authorized # Ok THEN Outcome(cdb, tdb, authorized)
             ELSE LET withdrawal == TransactionDb_withdraw(tdb, operation.tx, amount)
                  IN  IF withdrawal.err # Ok THEN Outcome(cdb, tdb, withdrawal.err)
                      ELSE LET r == AccountState_withdraw(client, withdrawal.amount)
                           IN  Outcome(ClientDb_store(cdb, operation.client, r.self),
                                       withdrawal.db, r.err)

\* Variant: the amount of a dispute row is ignored.
ProcessDisputeRow_AnyAmount(cdb, tdb, operation) ==
    LET disputed == TransactionDb_dispute(tdb, operation.tx)
    IN  IF disputed.err # Ok THEN Outcome(cdb, tdb, disputed.err)
        ELSE LET r == AccountState_dispute_deposit(
                          ClientDb_state(cdb, operation.client), disputed.amount)
             IN  Outcome(ClientDb_store(cdb, operation.client, r.self),
                         disputed.db, r.err)

ProcessDisputeRow(cdb, tdb, operation) ==
    IF operation.amount # None
    THEN Outcome(cdb, tdb, "amount isn't expected for dispute")
    ELSE LET disputed == TransactionDb_dispute(tdb, operation.tx)
         IN  IF disputed.err # Ok THEN Outcome(cdb, tdb, disputed.err)
             ELSE LET r == AccountState_dispute_deposit(
                               ClientDb_state(cdb, operation.client), disputed.amount)
                  IN  Outcome(ClientDb_store(cdb, operation.client, r.self),
                              disputed.db, r.err)

ProcessResolveRow(cdb, tdb, operation) ==
    IF operation.amount # None
    THEN Outcome(cdb, tdb, "amount isn't expected for resolve")
    ELSE LET resolved == TransactionDb_resolve(tdb, operation.tx)
         IN  IF resolved.err # Ok THEN Outcome(cdb, tdb, resolved.err)
             ELSE LET r == AccountState_resolve_dispute(
                               ClientDb_state(cdb, operation.client), resolved.amount)
                  IN  Outcome(ClientDb_store(cdb, operation.client, r.self),
                              resolved.db, r.err)

ProcessChargebackRow(cdb, tdb, operation) ==
    IF operation.amount # None
    THEN Outcome(cdb, tdb, "amount isn't expected for chargeback")
    ELSE LET chargedback == TransactionDb_chargeback(tdb, operation.tx)
         IN  IF chargedback.err # Ok THEN Outcome(cdb, tdb, chargedback.err)
             ELSE LET r == AccountState_chargeback(
                               ClientDb_state(cdb, operation.client), chargedback.amount)
                  IN  Outcome(ClientDb_store(cdb, operation.client, r.self),
                              chargedback.db, r.err)

process_operation(cdb, tdb, operation) ==
    LET cdb1 == ClientDb_get_mut(cdb, operation.client)
    IN  CASE operation.op_type = "deposit" -> ProcessDepositRow(cdb1, tdb, operation)
          [] operation.op_type = "withdrawal" -> ProcessWithdrawalRow(cdb1, tdb, operation)
          [] operation.op_type = "dispute" -> ProcessDisputeRow(cdb1, tdb, operation)
          [] operation.op_type = "resolve" -> ProcessResolveRow(cdb1, tdb, operation)
          [] operation.op_type = "chargeback" -> ProcessChargebackRow(cdb1, tdb, operation)

\* ------------------------------------------------------------- state
VARIABLES
    clients,        \* ClientDb.clients
    transactions,   \* TransactionDb.transactions
    rows,           \* rows of the input read so far (idx of process_csv)
    last,           \* history: once the input has ended, its last row, the
                    \* result of process_operation on it and both stores as
                    \* they were before that row; NoRow while rows remain
    origin,         \* history: the row (client, amount) that created each record
    seen,           \* history: the client ids of the rows read so far, in
                    \* order of first appearance
    output          \* the summary written to the writer: None until it is
                    \* written, then Some(the sequence of its ClientRows)

vars == <<clients, transactions, rows, last, origin, seen, output>>

NoRow == [op |-> Operation("none", 0, 0, None), result |-> "none",
          clients |-> <<>>, transactions |-> <<>>]

Init ==
    /\ clients = <<>>
    /\ transactions = <<>>
    /\ rows = 0
    /\ last = NoRow
    /\ origin = <<>>
    /\ seen = <<>>
    /\ output = None

\* Client and transaction ids are opaque keys (only hashed and compared), so
\* a row that brings a new id brings the smallest unused one: every input is
\* such an input up to a renaming of its ids.
FreshIds(operation) ==
    /\ operation.client <= Len(clients) + 1
    /\ operation.tx <= Cardinality(DOMAIN transactions) + 1

\* The input has not ended (and is at most MaxRows rows long).
MoreRows == last = NoRow /\ rows < MaxRows

LastRow(operation, out, eof) ==
    IF eof
    THEN [op |-> operation, result |-> out.result,
          clients |-> clients, transactions |-> transactions]
    ELSE last

OriginAfter(operation, out) ==
    IF operation.tx \in DOMAIN out.transactions /\ operation.tx \notin DOMAIN transactions
    THEN origin @@ (operation.tx :> [client |-> operation.client,
                                     amount |-> operation.amount[1],
                                     op_type |-> operation.op_type,
                                     ok |-> out.result = Ok])
    ELSE origin

SeenAfter(operation) ==
    IF \E i \in 1..Len(seen) : seen[i] = operation.client THEN seen
    ELSE Append(seen, operation.client)

\* One iteration of the loop of process_csv, per type of row; eof says that
\* the row is the last one of the input.
DepositRow ==
    /\ MoreRows
    /\ \E c \in ClientIds, x \in TxIds, a \in RowAmounts, eof \in BOOLEAN :
        LET operation == Operation("deposit", c, x, a)
            out == process_operation(clients, transactions, operation)
        IN  /\ FreshIds(operation)
            /\ clients' = out.clients
            /\ transactions' = out.transactions
            /\ rows' = rows + 1
            /\ last' = LastRow(operation, out, eof)
            /\ origin' = OriginAfter(operation, out)
            /\ seen' = SeenAfter(operation)
            /\ output' = output

WithdrawalRow ==
    /\ MoreRows
    /\ \E c \in ClientIds, x \in TxIds, a \in RowAmounts, eof \in BOOLEAN :
        LET operation == Operation("withdrawal", c, x, a)
            out == process_operation(clients, transactions, operation)
        IN  /\ FreshIds(operation)
            /\ clients' = out.clients
            /\ transactions' = out.transactions
            /\ rows' = rows + 1
            /\ last' = LastRow(operation, out, eof)
            /\ origin' = OriginAfter(operation, out)
            /\ seen' = SeenAfter(operation)
            /\ output' = output

DisputeRow ==
    /\ MoreRows
    /\ \E c \in ClientIds, x \in TxIds, a \in RowAmounts, eof \in BOOLEAN :
        LET operation == Operation("dispute", c, x, a)
            out == process_operation(clients, transactions, operation)
        IN  /\ FreshIds(operation)
            /\ clients' = out.clients
            /\ transactions' = out.transactions
            /\ rows' = rows + 1
            /\ last' = LastRow(operation, out, eof)
            /\ origin' = OriginAfter(operation, out)
            /\ seen' = SeenAfter(operation)
            /\ output' = output

ResolveRow ==
    /\ MoreRows
    /\ \E c \in ClientIds, x \in TxIds, a \in RowAmounts, eof \in BOOLEAN :
        LET operation == Operation("resolve", c, x, a)
            out == process_operation(clients, transactions, operation)
        IN  /\ FreshIds(operation)
            /\ clients' = out.clients
            /\ transactions' = out.transactions
            /\ rows' = rows + 1
            /\ last' = LastRow(operation, out, eof)
            /\ origin' = OriginAfter(operation, out)
            /\ seen' = SeenAfter(operation)
            /\ output' = output

ChargebackRow ==
    /\ MoreRows
    /\ \E c \in ClientIds, x \in TxIds, a \in RowAmounts, eof \in BOOLEAN :
        LET operation == Operation("chargeback", c, x, a)
            out == process_operation(clients, transactions, operation)
        IN  /\ FreshIds(operation)
            /\ clients' = out.clients
            /\ transactions' = out.transactions
            /\ rows' = rows + 1
            /\ last' = LastRow(operation, out, eof)
            /\ origin' = OriginAfter(operation, out)
            /\ seen' = SeenAfter(operation)
            /\ output' = output

Next == DepositRow \/ WithdrawalRow \/ DisputeRow \/ ResolveRow \/ ChargebackRow

Spec == Init /\ [][Next]_vars

\* The loop of process_csv on inputs that hold deposit and withdrawal rows only.
NextDepositWithdrawal == DepositRow \/ WithdrawalRow

SpecDepositWithdrawal == Init /\ [][NextDepositWithdrawal]_vars

\* ------------------------------------------------------------- process_csv
\* The whole of process_csv on inputs whose client ids come in any order (a
\* new client id need not be the smallest unused one): the loop over the rows,
\* then the summary.

\* A row of the summary. The amounts of the model are whole numbers of the
\* smallest unit the summary prints, which round_dp leaves as they are.
ClientRow(client, state) ==
    [client |-> client, available |-> state.available, held |-> state.held,
     total |-> state.total, locked |-> state.locked]

\* ClientDb::all: the entries in the order of the IndexMap.
ClientDb_all(db) == [i \in 1..Len(db) |-> <<db[i].id, db[i].state>>]

MoreOrderRows == last = NoRow /\ rows < MaxOrderRows

\* One iteration of the loop, on a row of any type.
AnyOrderRow ==
    /\ MoreOrderRows
    /\ \E t \in OperationTypes, c \in ClientIds, x \in TxIds, a \in RowAmounts,
          eof \in BOOLEAN :
        LET operation == Operation(t, c, x, a)
            out == process_operation(clients, transactions, operation)
        IN  /\ operation.tx <= Cardinality(DOMAIN transactions) + 1
            /\ clients' = out.clients
            /\ transactions' = out.transactions
            /\ rows' = rows + 1
            /\ last' = LastRow(operation, out, eof)
            /\ origin' = OriginAfter(operation, out)
            /\ seen' = SeenAfter(operation)
            /\ output' = output

\* After the last row: one ClientRow per entry of clients.all(), in its order.
WriteSummary ==
    /\ last # NoRow
    /\ output = None
    /\ output' = Some([i \in 1..Len(clients) |->
                        ClientRow(ClientDb_all(clients)[i][1],
                                  ClientDb_all(clients)[i][2])])
    /\ UNCHANGED <<clients, transactions, rows, last, origin, seen>>

NextAnyOrder == AnyOrderRow \/ WriteSummary

SpecOrder == Init /\ [][NextAnyOrder]_vars

\* ------------------------------------------------------------- properties
\* The input has ended: last holds its last row. Every row of every input is
\* the last row of the input cut after it, so a property of the states where
\* Ended holds is a property of every row process_operation handles.
Ended == last # NoRow

\* The account of a client in a ClientDb; an account that does not exist yet
\* is the one get_mut will create.
Account(db, client_id) ==
    IF ClientDb_has(db, client_id) THEN ClientDb_state(db, client_id)
    ELSE AccountState_default

Succeeded(op_type) == Ended /\ last.op.op_type = op_type /\ last.result = Ok

\* The last row left the ledger as it was and every account as it was.
NothingChanged ==
    /\ transactions = last.transactions
    /\ \A c \in ClientIds : Account(clients, c) = Account(last.clients, c)

\* The last row is one the input format defines: an amount that is present and
\* positive on a deposit or withdrawal, no amount on the other rows.
WellFormed ==
    IF last.op.op_type \in {"deposit", "withdrawal"}
    THEN last.op.amount # None /\ last.op.amount[1] > 0
    ELSE last.op.amount = None

\* C1: for every account, total = available + held after every row that was
\* applied successfully, whatever rows came before it.
C1_TotalIsAvailablePlusHeld ==
    (Ended /\ last.result = Ok) =>
        \A i \in 1..Len(clients) :
            clients[i].state.total = clients[i].state.available + clients[i].state.held

\* C2: when process_operation returns an error for a row, the ledger and every
\* account are exactly what they were before the row.
C2_FailedRowLeavesNoTrace ==
    (Ended /\ last.result # Ok) => NothingChanged

\* C3: a record's status changes only along Deposited -> Disputed (dispute),
\* Disputed -> Resolved (resolve) and Disputed -> Chargedback (chargeback);
\* a row whose (status, operation) pair is any other is rejected and leaves the
\* status as it was; no record is removed.
StatusTransitions ==
    { <<"Deposited", "dispute", "Disputed">>,
      <<"Disputed", "resolve", "Resolved">>,
      <<"Disputed", "chargeback", "Chargedback">> }

C3_StatusStateMachine ==
    Ended =>
        \A x \in DOMAIN last.transactions :
            /\ x \in DOMAIN transactions
            /\ LET was == last.transactions[x].status
                   now == transactions[x].status
               IN  /\ was # now =>
                        /\ last.op.tx = x
                        /\ <<was, last.op.op_type, now>> \in StatusTransitions
                   /\ (last.op.tx = x
                        /\ ~(\E t \in StatusTransitions :
                                t[1] = was /\ t[2] = last.op.op_type)) =>
                        (now = was /\ last.result # Ok)

C3_Witness ==
    /\ Ended
    /\ last.op.op_type = "dispute"
    /\ last.op.amount = None
    /\ last.op.tx \in DOMAIN last.transactions
    /\ last.transactions[last.op.tx].status = "Withdrawn"
    /\ last.result = "transaction can't be disputed"
    /\ transactions[last.op.tx].status = "Withdrawn"

\* C4: a withdrawal of more than the client's available funds fails, records
\* nothing in the ledger (the id stays free) and leaves every account as it
\* was; with a positive amount the failure is "not enough funds".
C4_Overdraw ==
    /\ Ended
    /\ last.op.op_type = "withdrawal"
    /\ last.op.amount # None
    /\ last.op.amount[1] > Account(last.clients, last.op.client).available

C4_OverdrawFailsCleanly ==
    C4_Overdraw =>
        /\ last.result # Ok
        /\ last.op.amount[1] > 0 => last.result = "not enough funds"
        /\ NothingChanged
        /\ last.op.tx \notin DOMAIN last.transactions => last.op.tx \notin DOMAIN transactions

C4_Witness ==
    /\ C4_Overdraw
    /\ Account(last.clients, last.op.client).available > 0
    /\ last.op.tx \notin DOMAIN transactions
    /\ last.result = "not enough funds"

\* C5 as stated: a deposit or withdrawal row (well-formed: amount present and
\* positive) whose transaction id is already in the ledger fails as a duplicate
\* and changes nothing.
C5_DuplicateId ==
    /\ Ended
    /\ last.op.op_type \in {"deposit", "withdrawal"}
    /\ last.op.tx \in DOMAIN last.transactions

C5_DuplicateFailsAsDuplicate ==
    (C5_DuplicateId /\ WellFormed) =>
        (last.result = "transaction already exists" /\ NothingChanged)

\* C5 as amended: a deposit or withdrawal whose transaction id is already in the
\* ledger fails and changes nothing; it fails as a duplicate when the row gets
\* as far as the ledger insert (amount present and > 0 and, for a withdrawal,
\* available >= amount), and with the error of the earlier check when it does not.
C5_ReachesLedger ==
    /\ last.op.amount # None
    /\ last.op.amount[1] > 0
    /\ last.op.op_type = "withdrawal" =>
            Account(last.clients, last.op.client).available >= last.op.amount[1]

C5_DuplicateFails ==
    C5_DuplicateId =>
        /\ last.result # Ok
        /\ NothingChanged
        /\ (last.result = "transaction already exists") <=> C5_ReachesLedger
        /\ (WellFormed /\ ~C5_ReachesLedger) => last.result = "not enough funds"

C5_Witness ==
    /\ C5_DuplicateId
    /\ last.op.op_type = "withdrawal"
    /\ last.transactions[last.op.tx].status = "Disputed"
    /\ last.result = "transaction already exists"
    /\ transactions[last.op.tx] = last.transactions[last.op.tx]

\* C6: when a chargeback succeeds, the account that becomes locked and loses
\* the amount from held and total is the account of the client whose deposit
\* created the transaction, whichever client id the chargeback row carries.
C6_ChargebackLocksOwner ==
    Succeeded("chargeback") =>
        LET o == origin[last.op.tx].client
            a == origin[last.op.tx].amount
            was == Account(last.clients, o)
            now == Account(clients, o)
        IN  /\ now.locked
            /\ now.held = was.held - a
            /\ now.total = was.total - a
            /\ \A c \in ClientIds \ {o} : Account(clients, c) = Account(last.clients, c)

\* C7: once an account is locked it is locked in every later state.
C7_LockedStaysLocked ==
    [][\A i \in 1..Len(clients) :
            clients[i].state.locked =>
                /\ i <= Len(clients')
                /\ clients'[i].id = clients[i].id
                /\ clients'[i].state.locked]_vars

C7_Witness ==
    /\ Ended
    /\ Account(last.clients, last.op.client).locked
    /\ last.result = Ok
    /\ Account(clients, last.op.client) # Account(last.clients, last.op.client)
    /\ Account(clients, last.op.client).locked

\* C8: a successful dispute is one of a Deposited transaction; with a the amount
\* recorded when it was deposited, it takes the row's client from
\* (available, held) to (available - a, held + a) and leaves total and locked.
C8_DisputeMovesToHeld ==
    Succeeded("dispute") =>
        LET a == origin[last.op.tx].amount
            was == Account(last.clients, last.op.client)
            now == Account(clients, last.op.client)
        IN  /\ last.transactions[last.op.tx].status = "Deposited"
            /\ last.transactions[last.op.tx].amount = a
            /\ now.available = was.available - a
            /\ now.held = was.held + a
            /\ now.total = was.total
            /\ now.locked = was.locked

C8_Witness ==
    /\ Succeeded("dispute")
    /\ origin[last.op.tx].client = last.op.client
    /\ Account(clients, last.op.client).held = origin[last.op.tx].amount
    /\ Account(clients, last.op.client).available > 0

\* C9: after a successful dispute, a resolve of the same transaction on the
\* same client, if it succeeds, returns that account to its available, held,
\* total and locked of before the dispute, and the transaction ends Resolved.
C9_ResolveRow == Operation("resolve", last.op.client, last.op.tx, None)

C9_Resolved == process_operation(clients, transactions, C9_ResolveRow)

C9_ResolveUndoesDispute ==
    (Succeeded("dispute") /\ C9_Resolved.result = Ok) =>
        /\ Account(C9_Resolved.clients, last.op.client)
                = Account(last.clients, last.op.client)
        /\ C9_Resolved.transactions[last.op.tx].status = "Resolved"

C9_Witness ==
    /\ Succeeded("dispute")
    /\ C9_Resolved.result = Ok
    /\ Account(clients, last.op.client) # Account(last.clients, last.op.client)
    /\ Account(last.clients, last.op.client).available > 0

\* C10: a successful chargeback is one of a Disputed transaction; with a its
\* amount, it takes a from held and from total of the row's client, leaves
\* available and sets locked. A chargeback of a transaction that is already
\* Chargedback fails and changes nothing; the failure of a chargeback row (one
\* with no amount) is "transaction isn't under dispute".
C10_ChargebackAgain ==
    /\ Ended
    /\ last.op.op_type = "chargeback"
    /\ last.op.tx \in DOMAIN last.transactions
    /\ last.transactions[last.op.tx].status = "Chargedback"

C10_Chargeback ==
    /\ Succeeded("chargeback") =>
        LET a == origin[last.op.tx].amount
            was == Account(last.clients, last.op.client)
            now == Account(clients, last.op.client)
        IN  /\ last.transactions[last.op.tx].status = "Disputed"
            /\ last.transactions[last.op.tx].amount = a
            /\ transactions[last.op.tx].status = "Chargedback"
            /\ now.held = was.held - a
            /\ now.total = was.total - a
            /\ now.available = was.available
            /\ now.locked
    /\ C10_ChargebackAgain =>
        /\ last.result # Ok
        /\ NothingChanged
        /\ WellFormed => last.result = "transaction isn't under dispute"

C10_Witness ==
    /\ C10_ChargebackAgain
    /\ WellFormed
    /\ last.result = "transaction isn't under dispute"
    /\ Account(clients, last.op.client).locked

\* C11: a dispute, resolve or chargeback succeeds only if a deposit row of the
\* same transaction id succeeded earlier in the input; when the id is not in the
\* ledger the row (one with no amount) fails with "transaction does not exist".
C11_Refers ==
    /\ Ended
    /\ last.op.op_type \in {"dispute", "resolve", "chargeback"}

C11_NeedsSuccessfulDeposit ==
    C11_Refers =>
        /\ last.result = Ok =>
            /\ last.op.tx \in DOMAIN origin
            /\ origin[last.op.tx].op_type = "deposit"
            /\ origin[last.op.tx].ok
        /\ (WellFormed /\ last.op.tx \notin DOMAIN last.transactions) =>
            (last.result = "transaction does not exist" /\ NothingChanged)

\* C12: a deposit or withdrawal whose amount is zero or negative fails, as
\* "deposit amount must be > 0" or "withdrawal amount should be > 0", records
\* nothing in the ledger and changes no balance.
C12_NotPositive ==
    /\ Ended
    /\ last.op.op_type \in {"deposit", "withdrawal"}
    /\ last.op.amount # None
    /\ last.op.amount[1] <= 0

C12_NotPositiveFails ==
    C12_NotPositive =>
        /\ last.result = (IF last.op.op_type = "deposit"
                          THEN "deposit amount must be > 0"
                          ELSE "withdrawal amount should be > 0")
        /\ NothingChanged
        /\ last.op.tx \notin DOMAIN last.transactions => last.op.tx \notin DOMAIN transactions

C12_Witness ==
    /\ C12_NotPositive
    /\ last.op.op_type = "deposit"
    /\ last.op.amount[1] = 0
    /\ last.op.tx \notin DOMAIN transactions
    /\ Account(last.clients, last.op.client).available > 0
    /\ last.result = "deposit amount must be > 0"

\* C13: the summary has exactly one row per client id that appeared in a row of
\* the input, rows that failed included, in order of first appearance, each
\* with that client's account; an account once created is never removed and
\* never changes position.
C13_InOrderOfAppearance ==
    /\ Len(clients) = Len(seen)
    /\ \A i \in 1..Len(seen) : clients[i].id = seen[i]
    /\ output # None =>
        /\ Len(output[1]) = Len(seen)
        /\ \A i \in 1..Len(seen) :
            output[1][i] = ClientRow(seen[i], Account(clients, seen[i]))

C13_KeepsPosition ==
    \A i \in 1..Len(clients) :
        /\ i <= Len(clients')
        /\ clients'[i].id = clients[i].id

C13_Summary == []C13_InOrderOfAppearance /\ [][C13_KeepsPosition]_vars

C13_Witness ==
    /\ output # None
    /\ Len(output[1]) = 2
    /\ output[1][1].client > output[1][2].client
    /\ transactions = <<>>
    /\ rows = MaxOrderRows

\* C14: after a deposit row that failed, for whatever reason (an overflow of
\* the balance after the ledger insert included), its transaction id is not in
\* the ledger: a dispute of the id fails with "transaction does not exist" and
\* a deposit with the id is not rejected as a duplicate.
C14_FailedDeposit ==
    /\ Ended
    /\ last.op.op_type = "deposit"
    /\ last.result # Ok
    /\ last.op.tx \notin DOMAIN last.transactions

C14_DisputeRow == Operation("dispute", last.op.client, last.op.tx, None)

C14_DepositRow == Operation("deposit", last.op.client, last.op.tx, Some(1))

C14_FailedDepositLeavesIdFree ==
    C14_FailedDeposit =>
        /\ last.op.tx \notin DOMAIN transactions
        /\ process_operation(clients, transactions, C14_DisputeRow).result
                = "transaction does not exist"
        /\ process_operation(clients, transactions, C14_DepositRow).result
                # "transaction already exists"

\* C15: applying a dispute to a balance is all-or-nothing: when the subtraction
\* from available or the addition to held fails, available and held are what
\* they were.
C15_DisputeFailedOnBalance ==
    /\ Ended
    /\ last.op.op_type = "dispute"
    /\ last.result \in {"available amount underflow", "held amount overflow"}

C15_DisputeAllOrNothing ==
    C15_DisputeFailedOnBalance =>
        /\ Account(clients, last.op.client).available
                = Account(last.clients, last.op.client).available
        /\ Account(clients, last.op.client).held
                = Account(last.clients, last.op.client).held

\* C16: applying a withdrawal that authorize_withdrawal has passed and the
\* ledger has recorded never fails with an underflow: a withdrawal row that
\* records a Withdrawn transaction succeeds and takes its amount from
\* available and from total of the row's client.
C16_Recorded ==
    /\ Ended
    /\ last.op.op_type = "withdrawal"
    /\ last.op.tx \notin DOMAIN last.transactions
    /\ last.op.tx \in DOMAIN transactions

C16_RecordedWithdrawalIsDeducted ==
    /\ (Ended /\ last.op.op_type = "withdrawal") =>
        last.result \notin {"available amount underflow", "total amount underflow"}
    /\ C16_Recorded =>
        LET was == Account(last.clients, last.op.client)
            now == Account(clients, last.op.client)
        IN  /\ last.result = Ok
            /\ transactions[last.op.tx] = TxRecord(last.op.amount[1], "Withdrawn")
            /\ now.available = was.available - last.op.amount[1]
            /\ now.total = was.total - last.op.amount[1]
            /\ now.held = was.held

C16_Witness ==
    /\ C16_Recorded
    /\ Account(last.clients, last.op.client).held < 0
    /\ Account(clients, last.op.client).total = 0 - MaxDecimal

\* C17: a dispute, resolve or chargeback row that carries an amount fails with
\* "amount isn't expected for ..." before the ledger is consulted: the status
\* of the transaction it names, and everything else, is unchanged. A deposit
\* or withdrawal row with no amount fails with "no amount for ...", records no
\* transaction and changes no balance.
C17_AmountNotExpected ==
    /\ Ended
    /\ last.op.op_type \in {"dispute", "resolve", "chargeback"}
    /\ last.op.amount # None

C17_AmountMissing ==
    /\ Ended
    /\ last.op.op_type \in {"deposit", "withdrawal"}
    /\ last.op.amount = None

C17_AmountPresence ==
    /\ C17_AmountNotExpected =>
        /\ last.result = CASE last.op.op_type = "dispute" ->
                                "amount isn't expected for dispute"
                           [] last.op.op_type = "resolve" ->
                                "amount isn't expected for resolve"
                           [] last.op.op_type = "chargeback" ->
                                "amount isn't expected for chargeback"
        /\ NothingChanged
    /\ C17_AmountMissing =>
        /\ last.result = (IF last.op.op_type = "deposit"
                          THEN "no amount for deposit"
                          ELSE "no amount for withdrawal")
        /\ NothingChanged

C17_Witness ==
    /\ C17_AmountNotExpected
    /\ last.op.op_type = "dispute"
    /\ last.op.tx \in DOMAIN last.transactions
    /\ last.transactions[last.op.tx].status = "Deposited"
    /\ last.op.amount = Some(last.transactions[last.op.tx].amount)
    /\ origin[last.op.tx].client = last.op.client
    /\ transactions[last.op.tx].status = "Deposited"
    /\ last.result = "amount isn't expected for dispute"

\* C18 as stated: a dispute (a row with no amount) of a Deposited transaction
\* succeeds whatever the available funds of the account are.
C18_Dispute ==
    /\ Ended
    /\ last.op.op_type = "dispute"
    /\ last.op.amount = None
    /\ last.op.tx \in DOMAIN last.transactions
    /\ last.transactions[last.op.tx].status = "Deposited"

C18_DisputeSucceeds ==
    C18_Dispute =>
        /\ last.result = Ok
        /\ Account(clients, last.op.client).available
                = Account(last.clients, last.op.client).available
                    - last.transactions[last.op.tx].amount

\* C18 as amended: a dispute of a Deposited transaction is subject to no check
\* of the available funds: it succeeds exactly when available - a and held + a
\* stay in the range of Decimal, and fails with an underflow or overflow when
\* they do not. After deposit(a) and a withdrawal of part or all of a (held = 0
\* and 0 <= available < a), the dispute succeeds, available becomes negative
\* and held becomes a.
C18_DisputeIgnoresFunds ==
    C18_Dispute =>
        LET a == last.transactions[last.op.tx].amount
            was == Account(last.clients, last.op.client)
            now == Account(clients, last.op.client)
        IN  /\ last.result \in {Ok, "available amount underflow", "held amount overflow"}
            /\ (last.result = Ok) <=>
                    (was.available - a >= 0 - MaxDecimal /\ was.held + a <= MaxDecimal)
            /\ (was.held = 0 /\ was.available >= 0 /\ was.available < a) =>
                    /\ last.result = Ok
                    /\ now.available = was.available - a
                    /\ now.available < 0
                    /\ now.held = a

C18_Witness ==
    /\ C18_Dispute
    /\ origin[last.op.tx].client = last.op.client
    /\ \E x \in DOMAIN last.transactions :
            /\ last.transactions[x].status = "Withdrawn"
            /\ origin[x].client = last.op.client
            /\ last.transactions[x].amount < last.transactions[last.op.tx].amount
    /\ Account(last.clients, last.op.client).available = 1
    /\ Account(clients, last.op.client).available = 0 - 1
    /\ Account(clients, last.op.client).held = last.transactions[last.op.tx].amount
    /\ last.result = Ok

\* C19: a deposit or withdrawal on a locked account has the result, the effect
\* on the ledger and the effect on available, held and total that the same row
\* has on an unlocked account with the same balances; the account stays locked.
C19_OnLocked ==
    /\ Ended
    /\ last.op.op_type \in {"deposit", "withdrawal"}
    /\ Account(last.clients, last.op.client).locked

C19_Unlocked ==
    ClientDb_store(last.clients, last.op.client,
                   [Account(last.clients, last.op.client) EXCEPT !.locked = FALSE])

C19_OnUnlocked == process_operation(C19_Unlocked, last.transactions, last.op)

C19_LockRestrictsNothing ==
    C19_OnLocked =>
        LET now == Account(clients, last.op.client)
            twin == Account(C19_OnUnlocked.clients, last.op.client)
        IN  /\ last.result = C19_OnUnlocked.result
            /\ transactions = C19_OnUnlocked.transactions
            /\ now = [twin EXCEPT !.locked = TRUE]
            /\ ~twin.locked

C19_Witness ==
    /\ C19_OnLocked
    /\ last.op.op_type = "withdrawal"
    /\ last.result = Ok
    /\ Account(clients, last.op.client).available
            < Account(last.clients, last.op.client).available

\* C20: in every state every account has held >= 0, whatever the client ids of
\* the dispute, resolve and chargeback rows are.
C20_HeldNotNegative ==
    \A i \in 1..Len(clients) : clients[i].state.held >= 0

\* C21: in every state the sum of total over all accounts is the sum of the
\* amounts of the records that are Deposited, Disputed or Resolved minus the
\* sum of the amounts of the records that are Withdrawn; a Chargedback record
\* counts for nothing.
RECURSIVE C21_SumOfTotals(_)
C21_SumOfTotals(db) ==
    IF db = <<>> THEN 0
    ELSE Head(db).state.total + C21_SumOfTotals(Tail(db))

C21_Counts(record) ==
    CASE record.status \in {"Deposited", "Disputed", "Resolved"} -> record.amount
      [] record.status = "Withdrawn" -> 0 - record.amount
      [] record.status = "Chargedback" -> 0

RECURSIVE C21_SumOfRecords(_, _)
C21_SumOfRecords(db, ids) ==
    IF ids = {} THEN 0
    ELSE LET x == CHOOSE y \in ids : TRUE
         IN  C21_Counts(db[x]) + C21_SumOfRecords(db, ids \ {x})

C21_TotalsMatchLedger ==
    C21_SumOfTotals(clients) = C21_SumOfRecords(transactions, DOMAIN transactions)

\* C22: while the input holds deposit and withdrawal rows only, every account
\* has available >= 0, held = 0 and total = available.
C22_NothingHeld ==
    \A i \in 1..Len(clients) :
        /\ clients[i].state.available >= 0
        /\ clients[i].state.held = 0
        /\ clients[i].state.total = clients[i].state.available

C22_Witness ==
    /\ Succeeded("withdrawal")
    /\ Account(last.clients, last.op.client).available = MaxDecimal
    /\ Account(clients, last.op.client).available = 0
    /\ Account(clients, last.op.client).total = 0
    /\ transactions[last.op.tx].status = "Withdrawn"

====
